---- MODULE Spec2Model ----
(***************************************************************************)
(* A model of lodil's KeyValueStore (src/src/lib.rs): a clonable handle on *)
(* an Arc<RwLock<HashMap<K, (V, Option<SystemTime>)>>> with insert, get    *)
(* and remove.  Threads are the callers holding clones of one handle; an   *)
(* operation is split at the points where it acquires the lock, because    *)
(* these are the points where other threads can be interleaved.            *)
(*                                                                         *)
(* Option<T> is a sequence of length 0 (None) or 1 (Some).  An entry of    *)
(* the map is the pair <<value, expiration>> as in the source.             *)
(***************************************************************************)
EXTENDS Naturals, Sequences, FiniteSets

\* ---------------------------------------------------------------- bounds
\* The wall clock runs from 0 to MaxClock.
MaxClock == 1
\* At most MaxCalls operations are invoked in one behaviour.
MaxCalls == 3
\* A single caller is followed for longer: its clock runs to LongClock.
LongClock == 2

Threads == {"t1", "t2"}
Keys == {"a", "b"}
Values == {1, 2}
Durations == {0, 1}

\* ------------------------------------------------------- Option, Result
None == <<>>
Some(x) == <<x>>
IsSome(o) == Len(o) = 1
Unwrap(o) == o[1]
Option(S) == {None} \cup {Some(x) : x \in S}

\* KeyValueStoreError
PoisonedReadLock == "PoisonedReadLock"
PoisonedWriteLock == "PoisonedWriteLock"

\* KeyValueStoreResult<V> = Result<Option<V>, KeyValueStoreError>
Ok(o) == [ok |-> TRUE, val |-> o, err |-> ""]
Err(e) == [ok |-> FALSE, val |-> None, err |-> e]
NoResult == [ok |-> FALSE, val |-> None, err |-> "-"]

\* the Option<SystemTime> of a stored entry
ExpirationOf(entry) == Unwrap(entry)[2]

\* (a bug to be caught: the duration taken for the instant)
DeadlineFromEpoch(now, ttl) == ttl

\* expiration.map(|duration| SystemTime::now() + duration)
Deadline(now, ttl) == IF IsSome(ttl) THEN Some(now + Unwrap(ttl)) ELSE None

\* (a bug to be caught: the entry is given up at its expiration already)
ExpiredAtDeadline(entry, now) ==
    /\ IsSome(entry)
    /\ IsSome(entry[1][2])
    /\ entry[1][2][1] <= now

\* (a bug to be caught: the comparison the wrong way round)
ExpiredReversed(entry, now) ==
    /\ IsSome(entry)
    /\ IsSome(entry[1][2])
    /\ entry[1][2][1] > now

\* if let Some((value, Some(expiration))) = result { if expiration < now
Expired(entry, now) ==
    /\ IsSome(entry)
    /\ IsSome(ExpirationOf(entry))
    /\ Unwrap(ExpirationOf(entry)) < now

\* (a bug to be caught: the value is replaced, the old expiration is kept)
InsertedKeepsExpiry(m, k, v, e) ==
    IF m[k] = <<>> THEN [m EXCEPT ![k] = <<(<<v, e>>)>>]
                   ELSE [m EXCEPT ![k] = <<(<<v, m[k][1][2]>>)>>]

\* (a bug to be caught: a map that keeps the last entry only)
InsertedAlone(m, k, v, e) ==
    [x \in DOMAIN m |-> IF x = k THEN <<(<<v, e>>)>> ELSE <<>>]

\* (a bug to be caught: an existing entry is kept, as entry().or_insert())
InsertedIfAbsent(m, k, v, e) ==
    IF m[k] = <<>> THEN [m EXCEPT ![k] = <<(<<v, e>>)>>] ELSE m

\* HashMap::insert(key, (value, expiration)): the map afterwards
Inserted(m, k, v, e) == [m EXCEPT ![k] = Some(<<v, e>>)]

\* (a bug to be caught: the entry is read but not taken out)
RemovedNothing(m, k) == m

\* HashMap::remove(key): the map afterwards
Removed(m, k) == [m EXCEPT ![k] = None]

\* (a bug to be caught: the wrong error kind)
WriteLockErrorSwapped == [ok |-> FALSE, val |-> <<>>, err |-> "PoisonedReadLock"]

\* .write().map_err(|_| KeyValueStoreError::PoisonedWriteLock)
WriteLockError == Err(PoisonedWriteLock)

\* .read().map_err(|_| KeyValueStoreError::PoisonedReadLock)
ReadLockError == Err(PoisonedReadLock)

\* (a bug to be caught: the error of the nested remove is swallowed)
MapToNoneSwallowing(r) == [ok |-> TRUE, val |-> <<>>, err |-> ""]

\* (a bug to be caught: the result of the nested remove is passed on)
MapToNoneForgotten(r) == r

\* self.remove(&key).map(|_| None): an Ok becomes Ok(None), an Err stays
MapToNone(r) == IF r.ok THEN Ok(None) ELSE r

\* (a bug to be caught: the guard is still held when remove is called)
ReadersKept(rs, t) == rs

\* The read guard is a temporary of the `let result = ...;` statement: it
\* is dropped when the statement ends, before the expiry test.
ReadersAfterLookup(rs, t) == rs \ {t}

\* ----------------------------------------------------------------- state
VARIABLES
    map,        \* the HashMap: key -> Option<(V, Option<SystemTime>)>
    readers,    \* the threads holding the RwLock's read guard
    writer,     \* Option<thread>: the holder of the RwLock's write guard
    poisoned,   \* the RwLock's poison flag
    clock,      \* SystemTime::now()
    pc,         \* each thread's position
    op,         \* the operation a thread called: "insert", "get", "remove"
    key,        \* its key argument
    value,      \* insert's value argument
    ttl,        \* insert's argument `expiration: Option<Duration>`
    expiration, \* insert's local `expiration`, which shadows the argument
    now,        \* what SystemTime::now() returned in this call
    result,     \* get's local `result`: the entry it read under the read lock
    nested,     \* TRUE while remove runs as get's self.remove(&key)
    acquired,   \* how many times this call has acquired the RwLock
    ret,        \* the KeyValueStoreResult the call returned
    ncalls,     \* the number of operations invoked so far
    hist,       \* the calls a caller has observed to return, in order
    \* History variables: what the completed calls promise about a key, and
    \* what a call in progress was promised when it was issued.
    settled,    \* key -> Some(v): the last insert or remove of the key to
                \* take effect was insert(key, v, None)
    evicted,    \* key -> TRUE: a get of the key has returned Ok(None) for
                \* an expired entry and no insert of the key took effect since
    expectValue,\* thread -> settled[key] when its get was issued, None once
                \* an insert or remove of the key takes effect during the call
    expectNone  \* thread -> evicted[key] when its call was issued, FALSE
                \* once an insert of the key takes effect during the call

vars == <<map, readers, writer, poisoned, clock, pc, op, key, value, ttl,
          expiration, now, result, nested, acquired, ret, ncalls, hist,
          settled, evicted, expectValue, expectNone>>

lockVars == <<readers, writer, poisoned>>
argVars == <<op, key, value, ttl, expiration, now, nested>>
histVars == <<settled, evicted, expectValue, expectNone>>

\* The threads other than t that are inside a call on key k.
InFlightOn(t, k) ==
    {u \in Threads \ {t} : key[u] = k /\ pc[u] \notin {"idle", "done", "panicked"}}

NoKey == "-"

\* KeyValueStore::new(), and every thread holding a clone, nothing called.
Init ==
    /\ map = [k \in Keys |-> None]
    /\ readers = {}
    /\ writer = None
    /\ poisoned = FALSE
    /\ clock = 0
    /\ pc = [t \in Threads |-> "idle"]
    /\ op = [t \in Threads |-> "-"]
    /\ key = [t \in Threads |-> NoKey]
    /\ value = [t \in Threads |-> 0]
    /\ ttl = [t \in Threads |-> None]
    /\ expiration = [t \in Threads |-> None]
    /\ now = [t \in Threads |-> 0]
    /\ result = [t \in Threads |-> None]
    /\ nested = [t \in Threads |-> FALSE]
    /\ acquired = [t \in Threads |-> 0]
    /\ ret = [t \in Threads |-> NoResult]
    /\ ncalls = 0
    /\ hist = <<>>
    /\ settled = [k \in Keys |-> None]
    /\ evicted = [k \in Keys |-> FALSE]
    /\ expectValue = [t \in Threads |-> None]
    /\ expectNone = [t \in Threads |-> FALSE]

\* RwLock: write() is granted when nobody holds the lock, read() when no
\* writer holds it.
\* (a bug to be caught: a writer let in beside the readers)
CanWriteDespiteReaders == writer = None

CanWrite == readers = {} /\ writer = None
CanRead == writer = None

\* (a bug to be caught: an entry past its expiration counts as no entry)
ValueIfLive(entry) ==
    IF IsSome(entry) /\ ~(IsSome(entry[1][2]) /\ entry[1][2][1] < clock)
    THEN <<entry[1][1]>>
    ELSE <<>>

\* result.map(|(value, _)| value)
ValueOf(entry) == IF IsSome(entry) THEN Some(Unwrap(entry)[1]) ELSE None

\* --------------------------------------------------------------- insert
\* insert(key, value, expiration): line 71 computes the absolute expiration
\* before the lock is requested; the closure reads the clock only when a
\* duration is given.
InsertCall(t, k, v, d) ==
    /\ pc[t] = "idle"
    /\ ncalls < MaxCalls
    /\ ncalls' = ncalls + 1
    /\ op' = [op EXCEPT ![t] = "insert"]
    /\ key' = [key EXCEPT ![t] = k]
    /\ value' = [value EXCEPT ![t] = v]
    /\ ttl' = [ttl EXCEPT ![t] = d]
    /\ now' = [now EXCEPT ![t] = IF IsSome(d) THEN clock ELSE 0]
    /\ expiration' = [expiration EXCEPT ![t] = Deadline(clock, d)]
    /\ pc' = [pc EXCEPT ![t] = "ins_lock"]
    /\ UNCHANGED <<map, lockVars, clock, result, nested, acquired, ret, hist>>
    /\ UNCHANGED histVars

\* .write().map_err(|_| PoisonedWriteLock)?  A poisoned lock is still
\* acquired; map_err drops the guard and `?` returns the error.
InsertAcquire(t) ==
    /\ pc[t] = "ins_lock"
    /\ CanWrite
    /\ IF poisoned
       THEN /\ ret' = [ret EXCEPT ![t] = WriteLockError]
            /\ pc' = [pc EXCEPT ![t] = "done"]
            /\ UNCHANGED writer
       ELSE /\ writer' = Some(t)
            /\ pc' = [pc EXCEPT ![t] = "ins_apply"]
            /\ UNCHANGED ret
    /\ acquired' = [acquired EXCEPT ![t] = @ + 1]
    /\ UNCHANGED <<map, readers, poisoned, clock, argVars, result, ncalls, hist>>
    /\ UNCHANGED histVars

\* HashMap::insert(key, (value, expiration)) under the write guard, which is
\* dropped at the end of the statement; Ok(result.map(|(value, _)| value)).
\* (insert's and remove's local `result` is used at once and not kept.)
InsertApply(t) ==
    /\ pc[t] = "ins_apply"
    /\ writer = Some(t)
    /\ map' = Inserted(map, key[t], value[t], expiration[t])
    /\ writer' = None
    /\ ret' = [ret EXCEPT ![t] = Ok(ValueOf(map[key[t]]))]
    /\ pc' = [pc EXCEPT ![t] = "done"]
    /\ UNCHANGED <<readers, poisoned, clock, argVars, result, acquired, ncalls, hist>>
    /\ settled' = [settled EXCEPT ![key[t]] =
                    IF ttl[t] = None THEN Some(value[t]) ELSE None]
    /\ evicted' = [evicted EXCEPT ![key[t]] = FALSE]
    /\ expectValue' = [u \in Threads |->
                         IF u \in InFlightOn(t, key[t]) THEN None ELSE expectValue[u]]
    /\ expectNone' = [u \in Threads |->
                        IF u \in InFlightOn(t, key[t]) THEN FALSE ELSE expectNone[u]]

\* ------------------------------------------------------------------ remove
\* remove(key), called by the user.
RemoveCall(t, k) ==
    /\ pc[t] = "idle"
    /\ ncalls < MaxCalls
    /\ ncalls' = ncalls + 1
    /\ op' = [op EXCEPT ![t] = "remove"]
    /\ key' = [key EXCEPT ![t] = k]
    /\ pc' = [pc EXCEPT ![t] = "rem_lock"]
    /\ UNCHANGED <<map, lockVars, clock, value, ttl, expiration, now, result,
                   nested, acquired, ret, hist>>
    /\ expectNone' = [expectNone EXCEPT ![t] = evicted[k]]
    /\ UNCHANGED <<settled, evicted, expectValue>>

\* .write().map_err(|_| PoisonedWriteLock)?  in remove; inside get the error
\* passes through .map(|_| None) unchanged.
RemoveAcquire(t) ==
    /\ pc[t] = "rem_lock"
    /\ CanWrite
    /\ IF poisoned
       THEN /\ ret' = [ret EXCEPT ![t] = IF nested[t] THEN MapToNone(WriteLockError)
                                      ELSE WriteLockError]
            /\ pc' = [pc EXCEPT ![t] = "done"]
            /\ UNCHANGED writer
       ELSE /\ writer' = Some(t)
            /\ pc' = [pc EXCEPT ![t] = "rem_apply"]
            /\ UNCHANGED ret
    /\ acquired' = [acquired EXCEPT ![t] = @ + 1]
    /\ UNCHANGED <<map, readers, poisoned, clock, argVars, result, ncalls, hist>>
    /\ UNCHANGED histVars

\* HashMap::remove(key) under the write guard; Ok(result.map(..)), which
\* get turns into Ok(None) with .map(|_| None).
RemoveApply(t) ==
    /\ pc[t] = "rem_apply"
    /\ writer = Some(t)
    /\ map' = Removed(map, key[t])
    /\ writer' = None
    /\ ret' = [ret EXCEPT ![t] =
                 IF nested[t] THEN MapToNone(Ok(ValueOf(map[key[t]])))
                              ELSE Ok(ValueOf(map[key[t]]))]
    /\ pc' = [pc EXCEPT ![t] = "done"]
    /\ UNCHANGED <<readers, poisoned, clock, argVars, result, acquired, ncalls, hist>>
    /\ IF nested[t]
       THEN /\ evicted' = [evicted EXCEPT ![key[t]] = TRUE]
            /\ UNCHANGED <<settled, expectValue>>
       ELSE /\ settled' = [settled EXCEPT ![key[t]] = None]
            /\ expectValue' = [u \in Threads |->
                  IF u \in InFlightOn(t, key[t]) THEN None ELSE expectValue[u]]
            /\ UNCHANGED evicted
    /\ UNCHANGED expectNone

\* --------------------------------------------------------------------- get
\* get(key): line 92 samples the clock before the read lock is requested.
GetCall(t, k) ==
    /\ pc[t] = "idle"
    /\ ncalls < MaxCalls
    /\ ncalls' = ncalls + 1
    /\ op' = [op EXCEPT ![t] = "get"]
    /\ key' = [key EXCEPT ![t] = k]
    /\ now' = [now EXCEPT ![t] = clock]
    /\ pc' = [pc EXCEPT ![t] = "get_lock"]
    /\ UNCHANGED <<map, lockVars, clock, value, ttl, expiration, result,
                   nested, acquired, ret, hist>>
    /\ expectValue' = [expectValue EXCEPT ![t] = settled[k]]
    /\ expectNone' = [expectNone EXCEPT ![t] = evicted[k]]
    /\ UNCHANGED <<settled, evicted>>

\* .read().map_err(|_| PoisonedReadLock)?
GetAcquire(t) ==
    /\ pc[t] = "get_lock"
    /\ CanRead
    /\ IF poisoned
       THEN /\ ret' = [ret EXCEPT ![t] = ReadLockError]
            /\ pc' = [pc EXCEPT ![t] = "done"]
            /\ UNCHANGED readers
       ELSE /\ readers' = readers \cup {t}
            /\ pc' = [pc EXCEPT ![t] = "get_read"]
            /\ UNCHANGED ret
    /\ acquired' = [acquired EXCEPT ![t] = @ + 1]
    /\ UNCHANGED <<map, writer, poisoned, clock, argVars, result, ncalls, hist>>
    /\ UNCHANGED histVars

\* .get(key).cloned(), the guard's drop, and the test of lines 98-109: an
\* expired entry calls self.remove(&key), anything else returns.
GetLookup(t) ==
    /\ pc[t] = "get_read"
    /\ t \in readers
    /\ result' = [result EXCEPT ![t] = map[key[t]]]
    /\ readers' = ReadersAfterLookup(readers, t)
    /\ IF Expired(map[key[t]], now[t])
       THEN /\ nested' = [nested EXCEPT ![t] = TRUE]
            /\ pc' = [pc EXCEPT ![t] = "rem_lock"]
            /\ UNCHANGED ret
       ELSE /\ ret' = [ret EXCEPT ![t] = Ok(ValueOf(map[key[t]]))]
            /\ pc' = [pc EXCEPT ![t] = "done"]
            /\ UNCHANGED nested
    /\ UNCHANGED <<map, writer, poisoned, clock, op, key, value, ttl,
                   expiration, now, acquired, ncalls, hist>>
    /\ UNCHANGED histVars

\* ------------------------------------------------------------ environment
\* A thread panics while it holds the write guard (K's Hash or Eq panics
\* inside HashMap::insert or HashMap::remove, before the map is changed):
\* unwinding drops the guard, which poisons the RwLock.  A read guard never
\* poisons the lock.
Panic(t) ==
    /\ pc[t] \in {"ins_apply", "rem_apply"}
    /\ writer = Some(t)
    /\ poisoned' = TRUE
    /\ writer' = None
    /\ pc' = [pc EXCEPT ![t] = "panicked"]
    /\ UNCHANGED <<map, readers, clock, argVars, result, acquired, ret, ncalls, hist>>
    /\ UNCHANGED histVars

\* The wall clock advances (as far as limit).
Advance(limit) ==
    /\ clock < limit
    /\ clock' = clock + 1
    /\ UNCHANGED <<map, lockVars, pc, argVars, result, acquired, ret, ncalls, hist>>
    /\ UNCHANGED histVars

Tick == Advance(MaxClock)

\* The call returns to its caller, whose locals go out of scope; h is what
\* the caller has observed so far.
Finish(t, h) ==
    /\ pc[t] = "done"
    /\ hist' = h
    /\ pc' = [pc EXCEPT ![t] = "idle"]
    /\ op' = [op EXCEPT ![t] = "-"]
    /\ key' = [key EXCEPT ![t] = NoKey]
    /\ value' = [value EXCEPT ![t] = 0]
    /\ ttl' = [ttl EXCEPT ![t] = None]
    /\ expiration' = [expiration EXCEPT ![t] = None]
    /\ now' = [now EXCEPT ![t] = 0]
    /\ result' = [result EXCEPT ![t] = None]
    /\ nested' = [nested EXCEPT ![t] = FALSE]
    /\ acquired' = [acquired EXCEPT ![t] = 0]
    /\ ret' = [ret EXCEPT ![t] = NoResult]
    /\ UNCHANGED <<map, lockVars, clock, ncalls>>
    /\ expectValue' = [expectValue EXCEPT ![t] = None]
    /\ expectNone' = [expectNone EXCEPT ![t] = FALSE]
    /\ UNCHANGED <<settled, evicted>>

\* What the caller keeps of a call that returned.
CallRecord(t) ==
    [thread |-> t, op |-> op[t], key |-> key[t], value |-> value[t],
     ttl |-> ttl[t], expiration |-> expiration[t], now |-> now[t],
     ret |-> ret[t]]

\* The call returns; nothing is recorded.
Return(t) == Finish(t, hist)

\* The call returns and the caller notes it with its result.
Observe(t) == Finish(t, Append(hist, CallRecord(t)))

\* ---------------------------------------------------------- specification
\* Any number of threads call any operation with any arguments.
Next ==
    \/ Tick
    \/ \E t \in Threads :
        \/ \E k \in Keys, v \in Values, d \in Option(Durations) :
              InsertCall(t, k, v, d)
        \/ InsertAcquire(t)
        \/ InsertApply(t)
        \/ \E k \in Keys : GetCall(t, k)
        \/ GetAcquire(t)
        \/ GetLookup(t)
        \/ \E k \in Keys : RemoveCall(t, k)
        \/ RemoveAcquire(t)
        \/ RemoveApply(t)
        \/ Panic(t)
        \/ Return(t)

Spec == Init /\ [][Next]_vars

\* A store in use: some time ago a caller inserted key "a" with a TTL of
\* zero (insert("a", 1, Some(0)) at clock 0) and nobody has read it since.
LaterInit ==
    /\ map = [k \in Keys |-> IF k = "a" THEN Some(<<1, Some(0)>>) ELSE None]
    /\ readers = {}
    /\ writer = None
    /\ poisoned = FALSE
    /\ clock = 0
    /\ pc = [t \in Threads |-> "idle"]
    /\ op = [t \in Threads |-> "-"]
    /\ key = [t \in Threads |-> NoKey]
    /\ value = [t \in Threads |-> 0]
    /\ ttl = [t \in Threads |-> None]
    /\ expiration = [t \in Threads |-> None]
    /\ now = [t \in Threads |-> 0]
    /\ result = [t \in Threads |-> None]
    /\ nested = [t \in Threads |-> FALSE]
    /\ acquired = [t \in Threads |-> 0]
    /\ ret = [t \in Threads |-> NoResult]
    /\ ncalls = 0
    /\ hist = <<>>
    /\ settled = [k \in Keys |-> None]
    /\ evicted = [k \in Keys |-> FALSE]
    /\ expectValue = [t \in Threads |-> None]
    /\ expectNone = [t \in Threads |-> FALSE]

LaterSpec == LaterInit /\ [][Next]_vars

\* A single handle used by one thread, which notes every call it makes and
\* lets time pass between its calls.  (The clock is 0 at the first call: on
\* a new store, the time that passed before the first call changes nothing.)
Main == "t1"

SeqNext ==
    \/ (pc[Main] = "idle" /\ ncalls > 0 /\ Advance(LongClock))
    \/ \E k \in Keys, v \in Values, d \in Option(Durations) :
          InsertCall(Main, k, v, d)
    \/ InsertAcquire(Main)
    \/ InsertApply(Main)
    \/ \E k \in Keys : GetCall(Main, k)
    \/ GetAcquire(Main)
    \/ GetLookup(Main)
    \/ \E k \in Keys : RemoveCall(Main, k)
    \/ RemoveAcquire(Main)
    \/ RemoveApply(Main)
    \/ Observe(Main)

SeqSpec == Init /\ [][SeqNext]_vars

\* ------------------------------------------------- reading the history
\* The values the calls before hist[j] left stored under key k: the value
\* of an insert of k after which k was only read, by gets that found it.
\* (The set is empty or holds the value of the latest insert.)
StoredBefore(j, k) ==
    {hist[i].value : i \in {i \in 1..(j - 1) :
        /\ hist[i].op = "insert"
        /\ hist[i].key = k
        /\ \A m \in (i + 1)..(j - 1) :
              hist[m].key = k => hist[m].op = "get" /\ IsSome(hist[m].ret.val)}}

\* No insert or remove of key k was observed strictly between i and j.
NoWriteBetween(i, j, k) ==
    \A m \in (i + 1)..(j - 1) :
        hist[m].key = k => hist[m].op \notin {"insert", "remove"}

\* No insert of key k was observed strictly between i and j.
NoInsertBetween(i, j, k) ==
    \A m \in (i + 1)..(j - 1) : hist[m].key = k => hist[m].op # "insert"

\* -------------------------------------------------------------------- C1
\* C1: on one handle, insert(k, v1, None) into a store where k is absent
\* returns Ok(None); an insert of k that follows an insert(k, v1, None)
\* returns Ok(Some(v1)); and a get of k that follows an insert(k, v, None),
\* with no insert or remove of k in between, returns Ok(Some(v)) whatever
\* the clock shows (no false expiration).
C1_InsertThenGet ==
    \A i \in 1..Len(hist) :
        hist[i].op = "insert" =>
            /\ StoredBefore(i, hist[i].key) = {} => hist[i].ret = Ok(None)
            /\ hist[i].ttl = None =>
                  \A j \in (i + 1)..Len(hist) :
                      ( /\ hist[j].key = hist[i].key
                        /\ hist[j].op \in {"insert", "get"}
                        /\ NoWriteBetween(i, j, hist[i].key) )
                      => hist[j].ret = Ok(Some(hist[i].value))

\* insert(k, 1, None), insert(k, 2, None), then get(k) after the clock has
\* moved, with the three results of the claim.
C1_Witness ==
    /\ Len(hist) = 3
    /\ hist[1].op = "insert" /\ hist[1].value = 1 /\ hist[1].ttl = None
    /\ hist[1].ret = Ok(None)
    /\ hist[2].op = "insert" /\ hist[2].value = 2 /\ hist[2].ttl = None
    /\ hist[2].key = hist[1].key /\ hist[2].ret = Ok(Some(1))
    /\ hist[3].op = "get" /\ hist[3].key = hist[1].key /\ hist[3].now = LongClock
    /\ hist[3].ret = Ok(Some(2))

\* -------------------------------------------------------------------- C2
\* C2: on one handle, after insert(k, v, Some(d)) called at clock value
\* t0, a get of k (no insert or remove of k in between) that reads the
\* clock before t0 + d returns Ok(Some(v)) and one that reads it after
\* t0 + d returns Ok(None).
C2_TtlGet ==
    \A i \in 1..Len(hist) :
        (hist[i].op = "insert" /\ IsSome(hist[i].ttl)) =>
            \A j \in (i + 1)..Len(hist) :
                ( /\ hist[j].op = "get"
                  /\ hist[j].key = hist[i].key
                  /\ NoWriteBetween(i, j, hist[i].key) )
                => /\ hist[j].now < hist[i].now + hist[i].ttl[1]
                        => hist[j].ret = Ok(Some(hist[i].value))
                   /\ hist[j].now > hist[i].now + hist[i].ttl[1]
                        => hist[j].ret = Ok(None)

\* The scenario of tests::expired: insert with a TTL, get at once, get
\* after the TTL.
C2_Witness ==
    /\ Len(hist) = 3
    /\ hist[1].op = "insert" /\ hist[1].now = 0 /\ hist[1].ttl = Some(1)
    /\ hist[2].op = "get" /\ hist[2].key = hist[1].key /\ hist[2].now = 0
    /\ hist[2].ret = Ok(Some(hist[1].value))
    /\ hist[3].op = "get" /\ hist[3].key = hist[1].key /\ hist[3].now = 2
    /\ hist[3].ret = Ok(None)

\* -------------------------------------------------------------------- C3
\* What the observed removes returned, and what the gets after them did.
C3_RemoveResults ==
    \A j \in 1..Len(hist) :
        hist[j].op = "remove" =>
            /\ \A v \in StoredBefore(j, hist[j].key) : hist[j].ret = Ok(Some(v))
            /\ StoredBefore(j, hist[j].key) = {} => hist[j].ret = Ok(None)
            /\ \A l \in (j + 1)..Len(hist) :
                  ( /\ hist[l].op = "get"
                    /\ hist[l].key = hist[j].key
                    /\ NoInsertBetween(j, l, hist[j].key) )
                  => hist[l].ret = Ok(None)

\* The step on which a remove takes effect changes the map under its key
\* only, and leaves no entry there.
C3_RemoveStep ==
    (pc[Main] = "rem_apply" /\ ~nested[Main] /\ pc'[Main] = "done")
    => map' = [k \in Keys |-> IF k = key[Main] THEN None ELSE map[k]]

\* C3: remove(k) returns Ok(Some(v)) when v is stored under k and Ok(None)
\* when nothing is; when it returns, the map holds no entry for k and is
\* otherwise as before; and every get of k after it returns Ok(None) until
\* k is inserted again.
C3_Remove == [](C3_RemoveResults) /\ [][C3_RemoveStep]_vars

\* insert(k, v, None), remove(k) returning v, get(k) returning nothing.
C3_Witness ==
    /\ Len(hist) = 3
    /\ hist[1].op = "insert"
    /\ hist[2].op = "remove" /\ hist[2].key = hist[1].key
    /\ hist[2].ret = Ok(Some(hist[1].value))
    /\ hist[3].op = "get" /\ hist[3].key = hist[1].key
    /\ hist[3].ret = Ok(None)
    /\ map[hist[1].key] = None

\* -------------------------------------------------------------------- C4
\* C4: while the lock is not poisoned every call that has returned has
\* returned Ok, and a get that found no entry, or an entry whose expiration
\* lies before the time of the get, has returned Ok(None).
C4_AbsentIsNotAnError ==
    \A t \in Threads :
        (pc[t] = "done" /\ ~poisoned) =>
            /\ ret[t].ok
            /\ ( /\ op[t] = "get"
                  /\ \/ result[t] = None
                     \/ /\ result[t][1][2] # None
                        /\ result[t][1][2][1] < now[t] )
               => ret[t] = Ok(None)

\* A get that read an expired entry has returned Ok(None), and another
\* thread's get of a key never inserted has too.
C4_Witness ==
    /\ ~poisoned
    /\ \E t \in Threads :
          /\ pc[t] = "done" /\ op[t] = "get" /\ result[t] # None
          /\ result[t][1][2] # None /\ result[t][1][2][1] < now[t]
          /\ ret[t] = Ok(None)
    /\ \E t \in Threads :
          /\ pc[t] = "done" /\ op[t] = "get" /\ result[t] = None
          /\ ret[t] = Ok(None)

\* -------------------------------------------------------------------- C5
\* C5: a get(k) issued after an insert(k, v, None) made through any clone
\* has returned, with no insert or remove of k taking effect from that
\* insert until the get returns, returns Ok(Some(v)) (the lock not being
\* poisoned).
C5_ClonesShareTheMap ==
    \A t \in Threads :
        (pc[t] = "done" /\ op[t] = "get" /\ IsSome(expectValue[t]) /\ ~poisoned)
        => ret[t] = Ok(expectValue[t])

\* -------------------------------------------------------------------- C6
\* Every thread inserts a value under a key of its own, with no TTL; once
\* all these inserts have returned, the threads get any of the keys.
KeyOf(t) == IF t = "t1" THEN "a" ELSE "b"

HasInserted(t) ==
    \E i \in 1..Len(hist) : hist[i].thread = t /\ hist[i].op = "insert"

InsertGetNext ==
    \/ Tick
    \/ \E t \in Threads :
        \/ \E v \in Values : ~HasInserted(t) /\ InsertCall(t, KeyOf(t), v, None)
        \/ InsertAcquire(t)
        \/ InsertApply(t)
        \/ \E k \in Keys : (\A u \in Threads : HasInserted(u)) /\ GetCall(t, k)
        \/ GetAcquire(t)
        \/ GetLookup(t)
        \/ Observe(t)

InsertGetSpec == Init /\ [][InsertGetNext]_vars

\* C6: after concurrent inserts under pairwise distinct keys have all
\* returned, a get of any of the keys, from any thread, returns the value
\* that was inserted under it.
C6_NoLostUpdate ==
    \A i \in 1..Len(hist), j \in 1..Len(hist) :
        (hist[i].op = "insert" /\ hist[j].op = "get" /\ hist[j].key = hist[i].key)
        => hist[j].ret = Ok(Some(hist[i].value))

\* Both inserts were in progress at the same time, and afterwards the
\* thread that inserted "b" has got the value the other thread inserted.
C6_Witness ==
    /\ Len(hist) = 3
    /\ hist[1].op = "insert" /\ hist[2].op = "insert"
    /\ hist[3].op = "get" /\ hist[3].thread = "t2" /\ hist[3].key = "a"
    /\ \E i \in 1..2 : hist[i].key = "a" /\ hist[3].ret = Ok(Some(hist[i].value))

\* -------------------------------------------------------------------- C7
\* The step on which the removal inside a get takes effect deletes an
\* entry only if that entry has an expiration the clock has reached.
C7_StepEvictsOnlyExpired ==
    \A t \in Threads :
        ( /\ pc[t] = "rem_apply" /\ nested[t] /\ pc'[t] = "done"
          /\ map[key[t]] # None /\ map'[key[t]] = None )
        => /\ map[key[t]][1][2] # None
           /\ map[key[t]][1][2][1] <= clock

\* C7: the removal that get performs deletes nothing or an entry whose
\* expiration has been reached; it never deletes an entry that is still
\* valid (one without expiration, or with its expiration still ahead).
C7_EvictsOnlyExpired == [][C7_StepEvictsOnlyExpired]_vars

\* -------------------------------------------------------------------- C8
\* C8: a get(k) issued after some get(k) has returned Ok(None) for an
\* expired entry, with no insert of k taking effect since, returns
\* Ok(None); a remove(k) issued then returns Ok.
C8_NoResurrection ==
    \A t \in Threads :
        (pc[t] = "done" /\ expectNone[t] /\ ~poisoned) =>
            /\ op[t] = "get" => ret[t] = Ok(None)
            /\ op[t] = "remove" => ret[t].ok

\* After the expired observation one thread's get has returned Ok(None)
\* and the other's remove has returned Ok.
C8_Witness ==
    /\ ~poisoned
    /\ \E t \in Threads :
          pc[t] = "done" /\ op[t] = "get" /\ expectNone[t] /\ ret[t] = Ok(None)
    /\ \E t \in Threads :
          pc[t] = "done" /\ op[t] = "remove" /\ expectNone[t] /\ ret[t].ok

\* -------------------------------------------------------------------- C9
\* C9: a thread that waits for the write lock holds no read lock, and a
\* thread that holds a lock is at a point where it needs no other lock to
\* go on and release it: no thread waits for itself, and no two waiting
\* threads wait for each other.
C9_NoUpgrade ==
    \A t \in Threads :
        /\ pc[t] \in {"ins_lock", "rem_lock"} => t \notin readers
        /\ t \in readers => pc[t] = "get_read"
        /\ writer = Some(t) => pc[t] \in {"ins_apply", "rem_apply"}

\* A get is on its way to evict (waiting for the write lock, its read lock
\* released) while the other thread holds the read lock.
C9_Witness ==
    \E t \in Threads :
        /\ pc[t] = "rem_lock" /\ nested[t] /\ t \notin readers
        /\ readers # {}

\* ------------------------------------------------------------------- C10
\* A step taken while the lock is poisoned leaves the map alone, and a
\* thread that reaches the lock on it returns the error of its lock.
C10_StepPoisoned ==
    poisoned =>
        /\ map' = map
        /\ \A t \in Threads :
              (pc[t] \in {"ins_lock", "get_lock", "rem_lock"} /\ pc'[t] # pc[t])
              => /\ pc'[t] = "done"
                 /\ ~ret'[t].ok
                 /\ op[t] \in {"insert", "remove"} => ret'[t] = Err(PoisonedWriteLock)
                 /\ pc[t] = "get_lock" => ret'[t] = Err(PoisonedReadLock)

\* C10: once the lock is poisoned, a call that reaches the lock fails and
\* the map no longer changes: insert and remove return
\* Err(PoisonedWriteLock), get returns Err(PoisonedReadLock) from its
\* lookup, and the removal inside a get that had read an expired entry
\* before the poisoning returns an error as well.
C10_PoisonSurfaces == [][C10_StepPoisoned]_vars

\* After a panic under the write lock, one thread's insert of a key that
\* is not in the map has failed, and the key is still not in the map.
C10_Witness ==
    /\ poisoned
    /\ \E t \in Threads :
          /\ pc[t] = "done" /\ op[t] = "insert"
          /\ ret[t] = Err(PoisonedWriteLock)
          /\ map[key[t]] = None

\* ------------------------------------------------------------------- C11
\* What the gets observe after two inserts of the same key, one with and
\* one without a duration.
C11_GetsAfterReplacement ==
    \A i \in 1..Len(hist), j \in 1..Len(hist), l \in 1..Len(hist) :
        ( /\ i < j /\ j < l
          /\ hist[i].op = "insert" /\ hist[j].op = "insert" /\ hist[l].op = "get"
          /\ hist[j].key = hist[i].key /\ hist[l].key = hist[i].key
          /\ NoWriteBetween(j, l, hist[i].key) )
        => /\ (IsSome(hist[i].ttl) /\ hist[j].ttl = None)
                => hist[l].ret = Ok(Some(hist[j].value))
           /\ (hist[i].ttl = None /\ IsSome(hist[j].ttl))
                => /\ hist[l].now < hist[j].now + hist[j].ttl[1]
                        => hist[l].ret = Ok(Some(hist[j].value))
                   /\ hist[l].now > hist[j].now + hist[j].ttl[1]
                        => hist[l].ret = Ok(None)

\* The step on which an insert takes effect leaves under its key the value
\* and the expiration of this insert, whatever was stored before.
C11_StepReplacesEntry ==
    (pc[Main] = "ins_apply" /\ pc'[Main] = "done")
    => map'[key[Main]] = Some(<<value[Main], expiration[Main]>>)

\* C11: on one handle, an insert replaces the expiration of the entry
\* together with its value.  After insert(k, v1, Some(d)) and then
\* insert(k, v2, None), a get of k (no insert or remove of k in between)
\* returns Ok(Some(v2)) at every clock value; after insert(k, v1, None) and
\* then insert(k, v2, Some(d)) called at t2, a get of k that reads the clock
\* before t2 + d returns Ok(Some(v2)) and one that reads it after t2 + d
\* returns Ok(None).
C11_InsertReplacesExpiry ==
    [](C11_GetsAfterReplacement) /\ [][C11_StepReplacesEntry]_vars

\* insert(k, 1, Some(0)) at clock 0, insert(k, 2, None), and a get of k at
\* clock LongClock, long after the first expiration, that returns 2.
C11_Witness ==
    /\ Len(hist) = 3
    /\ hist[1].op = "insert" /\ hist[1].value = 1
    /\ hist[1].expiration = Some(0)
    /\ hist[2].op = "insert" /\ hist[2].value = 2 /\ hist[2].ttl = None
    /\ hist[2].key = hist[1].key /\ hist[2].ret = Ok(Some(1))
    /\ hist[3].op = "get" /\ hist[3].key = hist[1].key
    /\ hist[3].now = LongClock
    /\ hist[3].ret = Ok(Some(2))

\* ------------------------------------------------------------------- C12
\* C12 as stated: a get that read an entry with expiration Some(e) has
\* returned the value if its clock reading is below e, and Ok(None) if
\* its reading is e or above (an error if the lock was poisoned before
\* its removal).
C12_ExpiryBoundary ==
    \A t \in Threads :
        ( /\ pc[t] = "done" /\ op[t] = "get"
          /\ IsSome(result[t]) /\ IsSome(result[t][1][2]) )
        => /\ now[t] < result[t][1][2][1]
                => ret[t] = Ok(Some(result[t][1][1]))
           /\ now[t] >= result[t][1][2][1]
                => \/ ret[t] = Ok(None)
                   \/ poisoned /\ ret[t] = Err(PoisonedWriteLock)

\* C12, amended: a get that read an entry with expiration Some(e) has
\* returned the value if its clock reading is e or below, the reading equal
\* to e included, and Ok(None) only if its reading is above e (an error if
\* the lock was poisoned before its removal).
C12_ExpiryBoundaryStrict ==
    \A t \in Threads :
        ( /\ pc[t] = "done" /\ op[t] = "get"
          /\ IsSome(result[t]) /\ IsSome(result[t][1][2]) )
        => /\ now[t] <= result[t][1][2][1]
                => ret[t] = Ok(Some(result[t][1][1]))
           /\ now[t] > result[t][1][2][1]
                => \/ ret[t] = Ok(None)
                   \/ poisoned /\ ret[t] = Err(PoisonedWriteLock)

\* One thread's get read the clock at the very expiration of the entry and
\* has returned the value; the other's read it later and has returned
\* Ok(None).
C12_Witness ==
    /\ \E t \in Threads :
          /\ pc[t] = "done" /\ op[t] = "get" /\ IsSome(result[t])
          /\ result[t][1][2] = Some(now[t])
          /\ ret[t] = Ok(Some(result[t][1][1]))
    /\ \E t \in Threads :
          /\ pc[t] = "done" /\ op[t] = "get" /\ IsSome(result[t])
          /\ IsSome(result[t][1][2]) /\ result[t][1][2][1] < now[t]
          /\ ret[t] = Ok(None)

\* ------------------------------------------------------------------- C13
\* The holder of the write guard is the only holder of any guard.
C13_Exclusive ==
    /\ writer # None => readers = {}
    /\ \A t \in Threads : writer = Some(t) => pc[t] \in {"ins_apply", "rem_apply"}

\* A step that changes the map is the step of the thread that holds the
\* write guard; a get whose lookup finds no entry, an entry without
\* expiration or an entry that has not expired returns from the lookup,
\* having held the read guard only.
C13_StepLockDiscipline ==
    /\ map' # map =>
          \E t \in Threads :
              /\ writer = Some(t)
              /\ pc[t] \in {"ins_apply", "rem_apply"} /\ pc'[t] = "done"
    /\ \A t \in Threads :
          (pc[t] = "get_lock" /\ pc'[t] = "get_read")
          => writer = None /\ writer' = None /\ t \in readers'
    /\ \A t \in Threads :
          ( /\ pc[t] = "get_read" /\ pc'[t] # "get_read"
            /\ \/ map[key[t]] = None
               \/ map[key[t]][1][2] = None
               \/ ~(map[key[t]][1][2][1] < now[t]) )
          => pc'[t] = "done" /\ ret'[t].ok /\ writer' = None /\ t \notin readers'

\* C13: the map is modified only by a thread that holds the write guard,
\* the holder of the write guard is the only holder of the lock, and the
\* fast path of get takes the read guard only, which several gets can hold
\* at the same time.
C13_LockDiscipline == [](C13_Exclusive) /\ [][C13_StepLockDiscipline]_vars

\* Two gets hold the read guard at the same time, on a map that an insert
\* under the write guard has filled.
C13_Witness ==
    /\ readers = Threads
    /\ \A t \in Threads : op[t] = "get" /\ pc[t] = "get_read"
    /\ \E t \in Threads : map[key[t]] # None

\* ------------------------------------------------------------------- C14
\* No holder of the lock terminates abnormally (no Panic); a thread inside
\* a call goes on when it can: the lock grants a request that stays
\* grantable, and a thread that holds a guard runs.  The threads contend
\* for one key (the lock is one for all keys, and which value is stored
\* decides nothing about the steps a call takes).
LiveNext ==
    \/ Tick
    \/ \E t \in Threads :
        \/ \E d \in Option(Durations) : InsertCall(t, "a", 1, d)
        \/ InsertAcquire(t)
        \/ InsertApply(t)
        \/ GetCall(t, "a")
        \/ GetAcquire(t)
        \/ GetLookup(t)
        \/ RemoveCall(t, "a")
        \/ RemoveAcquire(t)
        \/ RemoveApply(t)
        \/ Return(t)

\* The next step of the call thread t is in (its position allows one of
\* these at most).
Proceed(t) ==
    \/ InsertAcquire(t)
    \/ InsertApply(t)
    \/ GetAcquire(t)
    \/ GetLookup(t)
    \/ RemoveAcquire(t)
    \/ RemoveApply(t)

LockFairness == \A t \in Threads : WF_vars(Proceed(t))

LiveSpec == Init /\ [][LiveNext]_vars /\ LockFairness

\* insert and remove acquire the lock once, get at most twice.
C14_BoundedAcquisitions ==
    \A t \in Threads :
        /\ op[t] \in {"insert", "remove"} => acquired[t] <= 1
        /\ op[t] = "get" => acquired[t] <= 2
        /\ pc[t] = "done" => acquired[t] >= 1

\* While a call is in progress, some call in progress can take its next
\* step.
C14_NoDeadlock ==
    (\E t \in Threads : pc[t] \notin {"idle", "done"})
    => \E t \in Threads :
          \/ pc[t] \in {"ins_lock", "rem_lock"} /\ readers = {} /\ writer = None
          \/ pc[t] = "get_lock" /\ writer = None
          \/ pc[t] \in {"ins_apply", "rem_apply"} /\ writer = Some(t)
          \/ pc[t] = "get_read" /\ t \in readers

\* Every call that was invoked returns.
C14_Returns ==
    \A t \in Threads : (pc[t] \notin {"idle", "done"}) ~> (pc[t] = "done")

\* C14: with a fair lock and no panic, every invoked insert, get and
\* remove returns, after one acquisition of the lock (insert, remove) or at
\* most two (get), and no state is a deadlock.
C14_Terminates ==
    /\ [](C14_BoundedAcquisitions /\ C14_NoDeadlock)
    /\ C14_Returns

\* A get has returned after two acquisitions (lookup and eviction) while
\* the other thread's call has returned after one.
C14_Witness ==
    /\ \E t \in Threads :
          pc[t] = "done" /\ op[t] = "get" /\ acquired[t] = 2 /\ ret[t] = Ok(None)
    /\ \E t \in Threads :
          pc[t] = "done" /\ op[t] \in {"insert", "remove"} /\ acquired[t] = 1

\* ------------------------------------------------------------------- C15
\* The entry of a key changes only on the step on which an insert or a
\* remove of that key (the one inside a get of that key included) takes
\* effect; the steps of a get up to and including its lookup change
\* nothing; the clock's advance changes nothing.
C15_StepFrame ==
    /\ \A k \in Keys :
          map'[k] # map[k] =>
              \E t \in Threads :
                  /\ key[t] = k
                  /\ pc[t] \in {"ins_apply", "rem_apply"} /\ pc'[t] = "done"
    /\ \A t \in Threads :
          (pc[t] \in {"idle", "get_lock", "get_read"} /\ pc'[t] # pc[t])
          => map' = map
    /\ clock' # clock => map' = map

\* A get removes only after its lookup read an entry whose expiration lies
\* before its clock reading; any other get is over with the lookup.
C15_EvictionHasCause ==
    \A t \in Threads :
        nested[t] =>
            /\ op[t] = "get"
            /\ IsSome(result[t]) /\ IsSome(result[t][1][2])
            /\ result[t][1][2][1] < now[t]

\* C15: insert(k), remove(k) and get(k) leave the entries of the other keys
\* as they are; a get that finds no entry, no expiration or an unexpired
\* entry leaves the whole map as it is; the passage of time changes
\* nothing, an expired entry staying in the map until a get or remove of
\* its key.
C15_Frame == [](C15_EvictionHasCause) /\ [][C15_StepFrame]_vars

\* An entry whose expiration has passed is still in the map, after an
\* insert or remove of the other key and a get of its own key that read it
\* before it expired have returned.
C15_Witness ==
    \E k \in Keys :
        /\ IsSome(map[k]) /\ IsSome(map[k][1][2]) /\ map[k][1][2][1] < clock
        /\ \E t \in Threads :
              /\ pc[t] = "done" /\ op[t] \in {"insert", "remove"} /\ key[t] # k
        /\ \E t \in Threads :
              /\ pc[t] = "done" /\ op[t] = "get" /\ key[t] = k
              /\ result[t] = map[k] /\ ret[t] = Ok(Some(map[k][1][1]))

\* ------------------------------------------------------------------- C16
\* The step on which a get returns a value read from an entry with an
\* expiration is taken while the clock has not passed that expiration.
C16_StepFreshAtLookup ==
    \A t \in Threads :
        ( /\ pc[t] = "get_read" /\ pc'[t] = "done"
          /\ IsSome(ret'[t].val)
          /\ IsSome(map[key[t]]) /\ IsSome(map[key[t]][1][2]) )
        => ~(map[key[t]][1][2][1] < clock)

\* C16: whenever get(k) returns Ok(Some(v)) from an entry with expiration
\* Some(e), e has not elapsed at the moment of the lookup under the read
\* guard, however long the get waited between reading the clock and
\* acquiring the lock.
C16_FreshAtLookup == [][C16_StepFreshAtLookup]_vars

\* ------------------------------------------------------------------- C17
\* While an insert waits for the lock or holds it, its expiration is the
\* clock value it read when it was called plus its duration (none without
\* a duration), whatever the clock shows by now.
C17_DeadlineFixed ==
    \A t \in Threads :
        pc[t] \in {"ins_lock", "ins_apply"} =>
            /\ ttl[t] = None => expiration[t] = None
            /\ IsSome(ttl[t]) =>
                  /\ expiration[t] = Some(now[t] + ttl[t][1])
                  /\ now[t] <= clock

\* The insert stores that expiration with its value, and an entry that is
\* replaced by another entry is replaced by an insert.
C17_StepStoresDeadline ==
    /\ \A t \in Threads :
          (pc[t] = "ins_apply" /\ pc'[t] = "done") =>
              map'[key[t]] =
                  Some(<<value[t],
                         IF ttl[t] = None THEN None
                                          ELSE Some(now[t] + ttl[t][1])>>)
    /\ \A k \in Keys :
          (IsSome(map[k]) /\ IsSome(map'[k]) /\ map'[k] # map[k]) =>
              \E t \in Threads :
                  key[t] = k /\ pc[t] = "ins_apply" /\ pc'[t] = "done"

\* C17: insert(k, v, Some(d)) stores as expiration the clock value at its
\* call plus d, computed before the lock is requested and not shifted by
\* the wait for the lock; the stored expiration is not changed afterwards
\* except by another insert; insert(k, v, None) stores no expiration.
C17_DeadlineAtCall == [](C17_DeadlineFixed) /\ [][C17_StepStoresDeadline]_vars

\* insert(k, v, Some(1)) was called at clock 0 and took effect at clock 1
\* or later (a get called at clock 1 found no entry before it): the
\* expiration stored is 0 + 1.
C17_Witness ==
    \E t \in Threads, u \in Threads :
        /\ pc[t] = "done" /\ op[t] = "insert" /\ ttl[t] = Some(1) /\ now[t] = 0
        /\ map[key[t]] = Some(<<value[t], Some(1)>>)
        /\ pc[u] = "done" /\ op[u] = "get" /\ key[u] = key[t]
        /\ now[u] = 1 /\ result[u] = None

\* ------------------------------------------------------------------- C18
\* On one handle: an insert or remove of k that returns while the entry
\* stored by the last call on k, an insert, is past its expiration returns
\* the value of that entry.  (The clock stands still during a call of this
\* caller, so the clock of the state is the clock of the call.)
C18_ExpiredStillReturned ==
    (pc[Main] = "done" /\ op[Main] \in {"insert", "remove"}) =>
        \A i \in 1..Len(hist) :
            ( /\ hist[i].op = "insert" /\ hist[i].key = key[Main]
              /\ IsSome(hist[i].expiration)
              /\ hist[i].expiration[1] < clock
              /\ \A m \in (i + 1)..Len(hist) : hist[m].key # key[Main] )
            => ret[Main] = Ok(Some(hist[i].value))

\* The step on which an insert or a remove called by the user takes effect
\* returns the value of whatever entry is stored under the key.
C18_StepReturnsStored ==
    \A t \in Threads :
        (pc[t] \in {"ins_apply", "rem_apply"} /\ ~nested[t] /\ pc'[t] = "done")
        => ret'[t] = Ok(IF map[key[t]] = None THEN None
                                              ELSE Some(map[key[t]][1][1]))

\* C18: insert and remove make no expiry check: for an entry that is stored
\* but past its expiration, remove(k) returns Ok(Some(stored value)) and
\* insert(k, ...) returns Ok(Some(stored value)), as for any stored entry.
C18_NoExpiryCheck ==
    [](C18_ExpiredStillReturned) /\ [][C18_StepReturnsStored]_vars

\* An entry that expired at clock 0 was returned by an insert at clock 1,
\* whose own entry, expired at clock 1, has been returned by a remove at
\* clock 2.
C18_Witness ==
    /\ Len(hist) = 2
    /\ hist[1].op = "insert" /\ hist[1].expiration = Some(0)
    /\ hist[2].op = "insert" /\ hist[2].key = hist[1].key
    /\ hist[2].now = 1 /\ hist[2].expiration = Some(1)
    /\ hist[2].ret = Ok(Some(hist[1].value))
    /\ pc[Main] = "done" /\ op[Main] = "remove" /\ key[Main] = hist[1].key
    /\ clock = 2
    /\ ret[Main] = Ok(Some(hist[2].value))

\* ------------------------------------------------------------------- C19
\* A call returns an error on the step on which it acquires the poisoned
\* lock, and the error names that acquisition: PoisonedReadLock for the
\* read lock of get's lookup, PoisonedWriteLock for the write lock of
\* insert, of remove and of the removal inside get.  A thread that finds
\* the lock poisoned returns on that step (it does not try again).
C19_StepErrorKinds ==
    \A t \in Threads :
        /\ (ret'[t] # ret[t] /\ ~ret'[t].ok /\ pc'[t] = "done") =>
              /\ poisoned
              /\ acquired'[t] = acquired[t] + 1
              /\ ret'[t] = Err(PoisonedReadLock) => pc[t] = "get_lock"
              /\ ret'[t] = Err(PoisonedWriteLock) => pc[t] \in {"ins_lock", "rem_lock"}
              /\ ret'[t].err \in {PoisonedReadLock, PoisonedWriteLock}
        /\ (poisoned /\ pc[t] = "rem_lock" /\ nested[t] /\ pc'[t] # pc[t]) =>
              /\ pc'[t] = "done"
              /\ ret'[t] = Err(PoisonedWriteLock)

\* A call that has returned has returned Ok or one of the two errors.
C19_ReturnedKinds ==
    \A t \in Threads :
        pc[t] = "done" =>
            \/ ret[t].ok
            \/ ret[t] = Err(PoisonedReadLock) /\ op[t] = "get" /\ ~nested[t]
            \/ /\ ret[t] = Err(PoisonedWriteLock)
               /\ (op[t] = "get" => nested[t])

\* C19: PoisonedReadLock is returned only for the failed acquisition of
\* the read lock (get's lookup) and PoisonedWriteLock only for a failed
\* acquisition of the write lock (insert, remove, the removal inside get);
\* a get that read an expired entry and finds the lock poisoned when it
\* acquires it for the removal returns Err(PoisonedWriteLock), not
\* Ok(None), and nothing is tried again.
C19_ErrorNamesAcquisition ==
    [](C19_ReturnedKinds) /\ [][C19_StepErrorKinds]_vars

\* A get read an expired entry, the lock was poisoned before its removal,
\* and the get has returned Err(PoisonedWriteLock); the entry is still in
\* the map.
C19_Witness ==
    \E t \in Threads :
        /\ pc[t] = "done" /\ op[t] = "get" /\ nested[t] /\ poisoned
        /\ IsSome(result[t]) /\ result[t][1][2] # None
        /\ result[t][1][2][1] < now[t]
        /\ ret[t] = Err(PoisonedWriteLock)
        /\ acquired[t] = 2
        /\ map[key[t]] = result[t]

\* ------------------------------------------------------------------- C20
\* tests::synchronized_insert_and_get: on a new store, the spawned thread
\* sleeps for a second and inserts (key, value) = ("a", 1) with no TTL
\* through a clone, once; the main thread gets the key, and then gets it
\* again, sleeping in between, until a get returns a value.
Spawned == "t2"

MainHasTheValue ==
    \E i \in 1..Len(hist) : hist[i].op = "get" /\ IsSome(hist[i].ret.val)

SyncNext ==
    \/ Tick
    \/ (clock >= 1 /\ InsertCall(Spawned, "a", 1, None))
    \/ InsertAcquire(Spawned)
    \/ InsertApply(Spawned)
    \/ (~MainHasTheValue /\ GetCall(Main, "a"))
    \/ GetAcquire(Main)
    \/ GetLookup(Main)
    \/ Observe(Main)

SyncSpec == Init /\ [][SyncNext]_vars

\* C20: the insert of the spawned thread, the only insert made on the
\* store, returns Ok(Some(1)) (the value its assert_eq! expects, so that
\* the thread ends without a panic and joins without error).
C20_SpawnedInsertReturnsPrevious ==
    (pc[Spawned] = "done" /\ op[Spawned] = "insert")
    => ret[Spawned] = Ok(Some(1))

====
